---- MODULE Spec2Model ----
(***************************************************************************)
(* The batch-processing pipeline of the call-recording service: the        *)
(* POST /api/files/process handler (three revisions of it are kept in the  *)
(* repository), MemStorage's asset methods, the direct SQL helpers, the    *)
(* transcription proxy and the blob move.                                  *)
(***************************************************************************)
EXTENDS Integers, Sequences, FiniteSets, TLC

\* ---- bounds ------------------------------------------------------------
NumFiles == 2
MaxBatch == 2

Filenames == 1..NumFiles

\* The three revisions of the handler: src/server/routes.ts,
\* src/unnamed/part_010 and src/unnamed/part_011.
Versions == {"routes", "part_010", "part_011"}

\* JavaScript null / undefined.
Null == "<null>"

\* The six analysis modules; each has its Map and its id counter in MemStorage.
Modules == {"sentiment", "language", "summarization", "forbiddenPhrases",
            "topicModeling", "speakerDiarization"}

\* The Maps of the rows that hang under a record of a module, keyed by the id
\* of that record; each has its id counter too.
DetailMaps == {"forbiddenPhrasesDetails", "speakerSegments"}

\* Transcript strings the transcription backend may hand back.
TranscriptValues == {Null, "", " ", "hello"}

\* Shape of the JSON body the backend hands back as `result`: missing, the
\* wire format keyed by `results`, or the SDK wrapper keyed by `result`.
TranscriptionShapes == {Null, "results", "result"}

VARIABLES
    version,      \* which revision of the handler is deployed
    files,        \* req.body.files
    i,            \* position of the for-loop in files (1-based)
    pc,           \* position of the handler
    fileid,       \* const fileid of the current iteration
    result,       \* const result of the current iteration
    results,      \* const results = []
    assets,       \* MemStorage.assets
    sqlAssets,    \* table rdt_assets
    source,       \* blobs in the source container
    dest,         \* blobs in the destination container
    moveIssued,   \* history: fileids whose iteration called moveFileToProcessed
    persistOk,    \* history: fileids whose completed row was written to rdt_assets
    faults,       \* history: what went wrong, per fileid
    terminalWrites, \* history: number of writes of a terminal status, per fileid
    blobCalls,    \* history: storage SDK calls of the running moveFileToProcessed
    attempts      \* history: calls of processAudioFile and of the SQL write, per fileid

VARIABLES
    runs,            \* history: the stores of a transcript, or the calls of the procedures
    ppc,             \* position of the store of the current transcript
    paragraph_idx,   \* para_idx of the paragraph being stored
    sentence_idx,    \* sent_idx of the sentence being stored
    paragraph_id,    \* @paragraph_id OUTPUT of the last RDS_InsertParagraph
    rdt_paragraphs,  \* table rdt_paragraphs
    rdt_sentences,   \* table rdt_sentences
    identity         \* the IDENTITY(1,1) counters of the two tables

VARIABLES
    maps,                  \* MemStorage.sentiment, .language, ... (one Map per module)
    currentId,             \* MemStorage.currentSentimentId, ... (one per module)
    transcriptionResponse, \* const transcriptionResponse of processAudioFile
    moduleResults,         \* the six results of Promise.all
    failedModules          \* history: modules whose main failed, per fileid

VARIABLES
    response_data,  \* transcribe_audio_file: the JSON body of the response
    diarize,        \* transcribe_audio_file: its diarize argument
    normalized      \* transcribe_audio_file: what it returned, once it has

pipelineVars == <<version, files, i, pc, fileid, result, results, assets,
                  sqlAssets, source, dest, moveIssued, persistOk, faults,
                  terminalWrites, blobCalls, attempts>>

paragraphVars == <<runs, ppc, paragraph_idx, sentence_idx, paragraph_id,
                   rdt_paragraphs, rdt_sentences, identity>>

analysisVars == <<maps, currentId, transcriptionResponse, moduleResults,
                  failedModules>>

VARIABLES
    pythonProcess,  \* let pythonProcess: the handle of the child, or NoChild
    spawned        \* the child processes spawned so far, each with its state

VARIABLES
    pool,           \* let pool: the connection pool of the module, or NoPool
    pools,          \* the ConnectionPool objects created so far
    connects        \* the calls of sqlConnect, each with its position

VARIABLES
    reqs            \* the position of each of the overlapping requests

normalizeVars == <<response_data, diarize, normalized>>

backendVars == <<pythonProcess, spawned>>

poolVars == <<pool, pools, connects>>

overlapVars == <<reqs>>

\* The variables of the scripts and services next to the pipeline.
otherVars == <<normalizeVars, backendVars, poolVars, overlapVars>>

coreVars == <<pipelineVars, paragraphVars, analysisVars>>

vars == <<coreVars, otherVars>>

\* ---- String helpers ----------------------------------------------------

\* String.prototype.trim on the strings of the model.
Trim(s) == IF s = " " THEN "" ELSE s

\* JavaScript truthiness of a string-or-null value.
Truthy(v) == v \notin {Null, ""}

\* a || b
Or(a, b) == IF Truthy(a) THEN a ELSE b

\* `result` before processAudioFile has answered.
NoResult == [success |-> FALSE, error |-> Null, transcription |-> Null,
             transcript |-> Null]

\* The requests of at most n filenames.  Filenames are interchangeable, so a
\* request names its files in the order of their first appearance.
BatchesUpTo(n) ==
    {b \in UNION {[1..k -> Filenames] : k \in 0..n} :
        \A k \in DOMAIN b :
            b[k] = 1 \/ \E j \in 1..(k - 1) : b[j] = b[k] - 1}

\* ---- Transcription: src/unnamed/part_013 and src/server/services/deepgram.ts

\* What the Python backend answers to POST /direct/transcribe: the call
\* throws (connection refused, timeout), answers 401 because the credentials
\* of the transcription service are invalid, answers with another non-2xx
\* status and no error text, or answers 2xx with a body.
Responses ==
    {[net |-> "throw", error |-> "fetch failed", transcript |-> Null,
      transcription |-> Null],
     [net |-> "unauthorized", error |-> "Invalid credentials",
      transcript |-> Null, transcription |-> Null],
     [net |-> "http_error", error |-> Null, transcript |-> Null,
      transcription |-> Null]}
    \cup [net : {"ok"}, error : {Null}, transcript : TranscriptValues,
          transcription : TranscriptionShapes]

directTranscribe(resp) ==
    IF resp.net = "ok"
    THEN [success |-> TRUE, error |-> Null,
          transcription |-> resp.transcription, transcript |-> resp.transcript]
    ELSE [success |-> FALSE,
          error |-> Or(resp.error, "Unknown error from Python backend"),
          transcription |-> Null, transcript |-> Null]

\* A processAudioFile that hands on whatever transcript the proxy answered.
processAudioFile_Unverified(resp) ==
    LET directResult == directTranscribe(resp) IN
    IF ~directResult.success
    THEN [success |-> FALSE,
          error |-> "Direct transcription failed: " \o directResult.error,
          transcription |-> Null, transcript |-> Null]
    ELSE [success |-> TRUE, error |-> Null,
          transcription |-> directResult.transcription,
          transcript |-> directResult.transcript]

processAudioFile(resp) ==
    LET directResult == directTranscribe(resp) IN
    IF ~directResult.success
    THEN [success |-> FALSE,
          error |-> "Direct transcription failed: " \o directResult.error,
          transcription |-> Null, transcript |-> Null]
    ELSE IF ~Truthy(directResult.transcript)
            \/ Trim(directResult.transcript) = ""
    THEN [success |-> FALSE,
          error |-> "Empty or invalid transcript returned from DirectTranscribe",
          transcription |-> Null, transcript |-> Null]
    ELSE [success |-> TRUE, error |-> Null,
          transcription |-> directResult.transcription,
          transcript |-> directResult.transcript]

\* result.transcription?.result?.utterances?.[0]?.transcript
\*   || result.transcription?.result?.channels?.[0]?.alternatives?.[0]?.transcript
\*   || ''
\* finds a text only in a body keyed by `result`.
LegacyTranscript(r) ==
    IF r.transcription = "result" THEN Or(r.transcript, "") ELSE ""

\* ---- MemStorage: src/server/storage.ts ----------------------------------

TerminalStatuses == {"completed", "error"}

\* { ...asset, id, created_dt, created_by }: the optional columns stay unset.
NewAsset(asset) ==
    [filename |-> asset.filename, fileSize |-> asset.fileSize,
     status |-> asset.status, transcription |-> Null,
     transcriptionJson |-> Null, processedDate |-> Null,
     languageDetected |-> Null, errorMessage |-> Null]

\* A row written with the default status whatever status the asset has.
NewAssetRow_Defaulted(asset) ==
    [filename |-> asset.filename,
     file_size |-> asset.fileSize,
     status |-> "pending", transcription |-> Null,
     transcription_json |-> Null, processed_date |-> Null,
     language_detected |-> Null, error_message |-> Null]

\* The row insertRecord('rdt_assets', sqlData) writes.
NewAssetRow(asset) ==
    [filename |-> asset.filename,
     file_size |-> asset.fileSize,
     status |-> Or(asset.status, "pending"), transcription |-> Null,
     transcription_json |-> Null, processed_date |-> Null,
     language_detected |-> Null, error_message |-> Null]

\* rdt_assets.fileid is UNIQUE: a second insert of a fileid fails.
InsertRow(rows, fid, row, ok) ==
    IF ok /\ fid \notin DOMAIN rows THEN (fid :> row) @@ rows ELSE rows

createAssetMem(mem, asset) == (asset.fileid :> NewAsset(asset)) @@ mem

createAssetSql(rows, asset, ok) ==
    InsertRow(rows, asset.fileid, NewAssetRow(asset), ok)

SqlColumn ==
    [status |-> "status", processedDate |-> "processed_date",
     transcription |-> "transcription",
     transcriptionJson |-> "transcription_json",
     languageDetected |-> "language_detected",
     errorMessage |-> "error_message"]

\* sqlUpdates: only the truthy members of updates, under their column names.
SqlUpdates(updates) ==
    LET keys == {k \in DOMAIN updates \cap DOMAIN SqlColumn :
                    Truthy(updates[k])} IN
    [c \in {SqlColumn[k] : k \in keys} |->
        updates[CHOOSE k \in keys : SqlColumn[k] = c]]

updateAssetMem(mem, fid, updates) ==
    IF fid \in DOMAIN mem THEN [mem EXCEPT ![fid] = updates @@ @] ELSE mem

\* UPDATE rdt_assets SET ... WHERE fileid = ...; a failing query is caught
\* and leaves the table as it was.
updateAssetSql(mem, rows, fid, updates, ok) ==
    IF fid \in DOMAIN mem /\ ok /\ fid \in DOMAIN rows
       /\ DOMAIN SqlUpdates(updates) # {}
    THEN [rows EXCEPT ![fid] = SqlUpdates(updates) @@ @]
    ELSE rows

\* ---- direct SQL helpers: src/server/services/direct-sql.ts ---------------

checkRecordExists(rows, fid, ok) == ok /\ fid \in DOMAIN rows

createAssetRecord(rows, fid, filename, fileSize, ok) ==
    InsertRow(rows, fid,
              [filename |-> filename, file_size |-> fileSize,
               status |-> "pending", transcription |-> Null,
               transcription_json |-> Null, processed_date |-> Null,
               language_detected |-> Null, error_message |-> Null], ok)

\* result.rowsAffected[0] > 0
updateTranscriptionRecordReturns(rows, fid, ok) == ok /\ fid \in DOMAIN rows

updateTranscriptionRecord(rows, fid, transcript, transcriptionJson, language, ok) ==
    IF updateTranscriptionRecordReturns(rows, fid, ok)
    THEN [rows EXCEPT ![fid] =
            [status |-> "completed", processed_date |-> "now",
             transcription |-> transcript,
             transcription_json |-> IF Truthy(transcriptionJson)
                                    THEN transcriptionJson ELSE "{}",
             language_detected |-> Or(language, "English")] @@ @]
    ELSE rows

\* No transcript is being stored and the two tables are empty.
ParagraphsIdle ==
    /\ runs = <<>>
    /\ ppc = "idle"
    /\ paragraph_idx = 0
    /\ sentence_idx = 0
    /\ paragraph_id = 0
    /\ rdt_paragraphs = {}
    /\ rdt_sentences = {}
    /\ identity = [rdt_paragraphs |-> 1, rdt_sentences |-> 1]

\* new MemStorage(): empty Maps, every id counter at 1.
AnalysisIdle ==
    /\ maps = [m \in Modules \cup DetailMaps |-> {}]
    /\ currentId = [m \in Modules \cup DetailMaps |-> 1]
    /\ transcriptionResponse = Null
    /\ moduleResults = <<>>
    /\ failedModules = <<>>

\* transcribe_audio_file is not running.
NormalizeIdle ==
    /\ response_data = Null
    /\ diarize = FALSE
    /\ normalized = <<>>

\* let pythonProcess = null: the handle names no child.
NoChild == 0

\* No Python backend has been started.
BackendIdle ==
    /\ pythonProcess = NoChild
    /\ spawned = <<>>

\* let pool, not assigned yet: the module has no pool.
NoPool == 0

\* sqlConnect has not been called.
PoolIdle ==
    /\ pool = NoPool
    /\ pools = <<>>
    /\ connects = <<>>

\* No request is being served next to the one of the handler.
OverlapIdle == reqs = <<>>

\* Nothing next to the pipeline is running.
OthersIdle == NormalizeIdle /\ BackendIdle /\ PoolIdle /\ OverlapIdle

Init ==
    /\ version \in Versions
    /\ files \in BatchesUpTo(MaxBatch)
    /\ i = 1
    /\ pc = "start"
    /\ fileid = 0
    /\ result = NoResult
    /\ results = <<>>
    /\ assets = <<>>
    /\ sqlAssets = <<>>
    /\ source \in SUBSET Filenames
    /\ dest = {}
    /\ moveIssued = {}
    /\ persistOk = {}
    /\ faults = <<>>
    /\ terminalWrites = <<>>
    /\ blobCalls = <<>>
    /\ attempts = <<>>
    /\ ParagraphsIdle
    /\ AnalysisIdle
    /\ OthersIdle

\* files.length === 0 is answered with 400; otherwise the loop starts.
Start ==
    /\ pc = "start"
    /\ pc' = IF Len(files) = 0 THEN "rejected" ELSE "create"
    /\ UNCHANGED <<otherVars, paragraphVars, analysisVars, version, files, i, fileid,
                   result, results, assets, sqlAssets, source, dest,
                   moveIssued, persistOk, faults, terminalWrites, blobCalls,
                   attempts>>

\* ---- POST /api/files/process -------------------------------------------

Fault(f, fid, tag) == [f EXCEPT ![fid] = @ \cup {tag}]

\* One more call of processAudioFile / of the write of the result.
Attempt(a, fid, step) == [a EXCEPT ![fid][step] = @ + 1]

\* The end of one iteration of `for (const filename of files)`; after the
\* last one the report is sent.
NextFile ==
    /\ i' = i + 1
    /\ pc' = IF i >= Len(files) THEN "done" ELSE "create"
    /\ result' = NoResult

\* results.push({ fileid, filename, status: 'success' })
PushSuccess ==
    /\ results' = Append(results, [fileid |-> fileid, filename |-> files[i],
                                   status |-> "success"])
    /\ NextFile

\* A catch block that gives up on the rest of the batch.
CatchError_AbortsBatch(message) ==
    /\ results' = Append(results, [filename |-> files[i], status |-> "error",
                                   error |-> message])
    /\ i' = i + 1
    /\ pc' = "done"
    /\ result' = NoResult

\* A catch block that logs the error and reports nothing.
CatchError_DropsFile(message) ==
    /\ results' = results
    /\ NextFile

\* catch (error) { results.push({ filename, status: 'error', error: error.message }) }
CatchError(message) ==
    /\ results' = Append(results, [filename |-> files[i], status |-> "error",
                                   error |-> message])
    /\ NextFile

\* The inner catch (dbError) of part_010 and part_011 rethrows with a prefix.
CatchDbError(message) ==
    CatchError(IF version = "routes" THEN message
               ELSE "Failed to update database: " \o message)

\* const fileid = nanoid(); await storage.createAsset({... status: 'processing'})
CreateAsset(sqlOk) ==
    LET asset == [fileid |-> i, filename |-> files[i], fileSize |-> 0,
                  status |-> "processing"] IN
    /\ pc = "create"
    /\ fileid' = i
    /\ assets' = createAssetMem(assets, asset)
    /\ sqlAssets' = createAssetSql(sqlAssets, asset, sqlOk)
    /\ faults' = (i :> (IF sqlOk THEN {} ELSE {"sql_insert"})) @@ faults
    /\ terminalWrites' = (i :> 0) @@ terminalWrites
    /\ attempts' = (i :> [transcribe |-> 0, persist |-> 0]) @@ attempts
    /\ pc' = "transcribe"
    /\ UNCHANGED <<otherVars, paragraphVars, analysisVars, version, files, i, result,
                   results, source, dest, moveIssued, persistOk, blobCalls>>

\* routes.ts: the result of processAudioFile is used unchecked.
Routes_Transcribe(resp) ==
    /\ pc = "transcribe"
    /\ version = "routes"
    /\ result' = processAudioFile(resp)
    /\ faults' = IF result'.success THEN faults
                 ELSE Fault(faults, fileid, "transcription")
    /\ attempts' = Attempt(attempts, fileid, "transcribe")
    /\ pc' = "move"
    /\ UNCHANGED <<otherVars, paragraphVars, analysisVars, version, files, i, fileid,
                   results, assets, sqlAssets, source, dest, moveIssued,
                   persistOk, terminalWrites, blobCalls>>

\* part_010, part_011: the result is verified and an invalid one is thrown.
Verified_Transcribe(resp) ==
    LET r == processAudioFile(resp)
        transcript == Or(r.transcript, "") IN
    /\ pc = "transcribe"
    /\ version \in {"part_010", "part_011"}
    /\ attempts' = Attempt(attempts, fileid, "transcribe")
    /\ UNCHANGED <<otherVars, paragraphVars, analysisVars, version, files, fileid, assets,
                   sqlAssets, source, dest, moveIssued, persistOk,
                   terminalWrites, blobCalls>>
    /\ IF ~r.success
       THEN /\ faults' = Fault(faults, fileid, "transcription")
            /\ CatchError("Transcription failed: " \o Or(r.error, "Unknown error"))
       ELSE IF ~Truthy(r.transcription)
       THEN /\ faults' = Fault(faults, fileid, "no_transcription_data")
            /\ CatchError("No transcription data available in result")
       ELSE IF ~Truthy(transcript) \/ Trim(transcript) = ""
       THEN /\ faults' = Fault(faults, fileid, "transcription")
            /\ CatchError("Invalid or empty transcript")
       ELSE /\ faults' = faults
            /\ result' = r
            /\ pc' = IF version = "part_010" THEN "update" ELSE "check_exists"
            /\ UNCHANGED <<i, results>>

\* ---- moveFileToProcessed: src/server/services/azure-storage.ts -----------

\* error.message of a failed call of the storage SDK.
StorageError == "storage request failed"

\* One call of the storage SDK: the operation and the container of the blob
\* client it is called on.
BlobCall(op, container) == [op |-> op, container |-> container]

\* The call of moveFileToProcessed(filename) and its existence check.
MoveExists(ok) ==
    /\ pc = "move"
    /\ moveIssued' = moveIssued \cup {fileid}
    /\ UNCHANGED <<otherVars, paragraphVars, analysisVars, version, files, fileid, assets,
                   sqlAssets, source, dest, persistOk, terminalWrites,
                   attempts>>
    /\ IF ~ok
       THEN /\ faults' = Fault(faults, fileid, "blob")
            /\ blobCalls' = <<>>
            /\ CatchDbError(StorageError)
       ELSE IF files[i] \notin source
       THEN /\ faults' = Fault(faults, fileid, "blob_missing")
            /\ blobCalls' = <<>>
            /\ CatchDbError("Source blob does not exist")
       ELSE /\ faults' = faults
            /\ blobCalls' = <<BlobCall("exists", "source")>>
            /\ pc' = "mv_download"
            /\ UNCHANGED <<i, result, results>>

MoveDownload(ok) ==
    /\ pc = "mv_download"
    /\ UNCHANGED <<otherVars, paragraphVars, analysisVars, version, files, fileid, assets,
                   sqlAssets, source, dest, moveIssued, persistOk,
                   terminalWrites, attempts>>
    /\ IF ~ok
       THEN /\ faults' = Fault(faults, fileid, "blob")
            /\ blobCalls' = <<>>
            /\ CatchDbError(StorageError)
       ELSE /\ faults' = faults
            /\ blobCalls' = Append(blobCalls, BlobCall("download", "source"))
            /\ pc' = "mv_upload"
            /\ UNCHANGED <<i, result, results>>

MoveUpload(ok) ==
    /\ pc = "mv_upload"
    /\ UNCHANGED <<otherVars, paragraphVars, analysisVars, version, files, fileid, assets,
                   sqlAssets, source, moveIssued, persistOk, terminalWrites,
                   attempts>>
    /\ IF ~ok
       THEN /\ faults' = Fault(faults, fileid, "blob")
            /\ dest' = dest
            /\ blobCalls' = <<>>
            /\ CatchDbError(StorageError)
       ELSE /\ faults' = faults
            /\ dest' = dest \cup {files[i]}
            /\ blobCalls' = Append(blobCalls, BlobCall("upload", "destination"))
            /\ pc' = "mv_delete"
            /\ UNCHANGED <<i, result, results>>

\* The delete and the return to the handler: routes.ts goes on to update the
\* asset, part_010 and part_011 have nothing left to do but report success.
MoveDelete(ok) ==
    /\ pc = "mv_delete"
    /\ blobCalls' = <<>>
    /\ UNCHANGED <<otherVars, paragraphVars, analysisVars, version, files, fileid, assets,
                   sqlAssets, dest, moveIssued, persistOk, terminalWrites,
                   attempts>>
    /\ IF ~ok
       THEN /\ faults' = Fault(faults, fileid, "blob")
            /\ source' = source
            /\ CatchDbError(StorageError)
       ELSE /\ faults' = faults
            /\ source' = source \ {files[i]}
            /\ IF version = "routes"
               THEN pc' = "update" /\ UNCHANGED <<i, result, results>>
               ELSE PushSuccess

\* ---- the asset update of the three revisions -----------------------------

CompletedUpdates(transcript, transcription) ==
    [status |-> "completed", processedDate |-> "now",
     transcription |-> transcript,
     transcriptionJson |-> transcription,
     languageDetected |-> "English"]

\* A write of a terminal status over a non-terminal one.
CountTerminal(tw, mem, fid, updates) ==
    IF fid \in DOMAIN mem /\ mem[fid].status \notin TerminalStatuses
       /\ updates.status \in TerminalStatuses
    THEN [tw EXCEPT ![fid] = @ + 1] ELSE tw

\* The UPDATE reached the row of the asset.
Persisted(mem, rows, fid, ok) == ok /\ fid \in DOMAIN mem /\ fid \in DOMAIN rows

\* routes.ts: after the move, unchecked transcript, then the success entry.
Routes_UpdateAsset(sqlOk) ==
    LET updates == CompletedUpdates(LegacyTranscript(result),
                                    Or(result.transcription, "{}")) IN
    /\ pc = "update"
    /\ version = "routes"
    /\ assets' = updateAssetMem(assets, fileid, updates)
    /\ sqlAssets' = updateAssetSql(assets, sqlAssets, fileid, updates, sqlOk)
    /\ terminalWrites' = CountTerminal(terminalWrites, assets, fileid, updates)
    /\ persistOk' = IF Persisted(assets, sqlAssets, fileid, sqlOk)
                    THEN persistOk \cup {fileid} ELSE persistOk
    /\ faults' = IF Persisted(assets, sqlAssets, fileid, sqlOk) THEN faults
                 ELSE Fault(faults, fileid, "persist")
    /\ attempts' = Attempt(attempts, fileid, "persist")
    /\ PushSuccess
    /\ UNCHANGED <<otherVars, paragraphVars, analysisVars, version, files, fileid, source,
                   dest, moveIssued, blobCalls>>

\* part_010: "Update the asset record FIRST, before moving the file".
P010_UpdateAsset(sqlOk) ==
    LET updates == CompletedUpdates(result.transcript, result.transcription) IN
    /\ pc = "update"
    /\ version = "part_010"
    /\ assets' = updateAssetMem(assets, fileid, updates)
    /\ sqlAssets' = updateAssetSql(assets, sqlAssets, fileid, updates, sqlOk)
    /\ terminalWrites' = CountTerminal(terminalWrites, assets, fileid, updates)
    /\ persistOk' = IF Persisted(assets, sqlAssets, fileid, sqlOk)
                    THEN persistOk \cup {fileid} ELSE persistOk
    /\ faults' = IF Persisted(assets, sqlAssets, fileid, sqlOk) THEN faults
                 ELSE Fault(faults, fileid, "persist")
    /\ attempts' = Attempt(attempts, fileid, "persist")
    /\ pc' = "move"
    /\ UNCHANGED <<otherVars, paragraphVars, analysisVars, version, files, i, fileid,
                   result, results, source, dest, moveIssued, blobCalls>>

\* part_011: const exists = await checkRecordExists(fileid)
P011_CheckRecordExists(ok) ==
    /\ pc = "check_exists"
    /\ version = "part_011"
    /\ pc' = IF checkRecordExists(sqlAssets, fileid, ok) THEN "record"
             ELSE "create_record"
    /\ UNCHANGED <<otherVars, paragraphVars, analysisVars, version, files, i, fileid,
                   result, results, assets, sqlAssets, source, dest,
                   moveIssued, persistOk, faults, terminalWrites, blobCalls,
                   attempts>>

\* part_011: await createAssetRecord(fileid, filename, ..., 0), result ignored
P011_CreateAssetRecord(ok) ==
    /\ pc = "create_record"
    /\ version = "part_011"
    /\ sqlAssets' = createAssetRecord(sqlAssets, fileid, files[i], 0, ok)
    /\ faults' = IF fileid \in DOMAIN sqlAssets' THEN faults
                 ELSE Fault(faults, fileid, "sql_insert")
    /\ pc' = "record"
    /\ UNCHANGED <<otherVars, paragraphVars, analysisVars, version, files, i, fileid,
                   result, results, assets, source, dest, moveIssued,
                   persistOk, terminalWrites, blobCalls, attempts>>

\* part_011: const updated = await updateTranscriptionRecord(...); a false
\* answer is thrown.
P011_UpdateTranscriptionRecord(ok) ==
    /\ pc = "record"
    /\ version = "part_011"
    /\ sqlAssets' = updateTranscriptionRecord(sqlAssets, fileid,
                        result.transcript, result.transcription, "English", ok)
    /\ attempts' = Attempt(attempts, fileid, "persist")
    /\ UNCHANGED <<otherVars, paragraphVars, analysisVars, version, files, fileid, assets,
                   source, dest, moveIssued, terminalWrites, blobCalls>>
    /\ IF updateTranscriptionRecordReturns(sqlAssets, fileid, ok)
       THEN /\ persistOk' = persistOk \cup {fileid}
            /\ faults' = faults
            /\ pc' = "update"
            /\ UNCHANGED <<i, result, results>>
       ELSE /\ persistOk' = persistOk
            /\ faults' = Fault(faults, fileid, "persist")
            /\ CatchDbError("Failed to update record in PostgreSQL database")

\* part_011: "Also update in-memory storage", then the move.
P011_UpdateAsset(sqlOk) ==
    LET updates == CompletedUpdates(result.transcript, result.transcription) IN
    /\ pc = "update"
    /\ version = "part_011"
    /\ assets' = updateAssetMem(assets, fileid, updates)
    /\ sqlAssets' = updateAssetSql(assets, sqlAssets, fileid, updates, sqlOk)
    /\ terminalWrites' = CountTerminal(terminalWrites, assets, fileid, updates)
    /\ pc' = "move"
    /\ UNCHANGED <<otherVars, paragraphVars, analysisVars, version, files, i, fileid,
                   result, results, source, dest, moveIssued, persistOk,
                   faults, blobCalls, attempts>>

Next ==
    \/ Start
    \/ \E sqlOk \in BOOLEAN : CreateAsset(sqlOk)
    \/ \E resp \in Responses : Routes_Transcribe(resp)
    \/ \E resp \in Responses : Verified_Transcribe(resp)
    \/ \E ok \in BOOLEAN : MoveExists(ok)
    \/ \E ok \in BOOLEAN : MoveDownload(ok)
    \/ \E ok \in BOOLEAN : MoveUpload(ok)
    \/ \E ok \in BOOLEAN : MoveDelete(ok)
    \/ \E sqlOk \in BOOLEAN : Routes_UpdateAsset(sqlOk)
    \/ \E sqlOk \in BOOLEAN : P010_UpdateAsset(sqlOk)
    \/ \E ok \in BOOLEAN : P011_CheckRecordExists(ok)
    \/ \E ok \in BOOLEAN : P011_CreateAssetRecord(ok)
    \/ \E ok \in BOOLEAN : P011_UpdateTranscriptionRecord(ok)
    \/ \E sqlOk \in BOOLEAN : P011_UpdateAsset(sqlOk)

Spec == Init /\ [][Next]_vars

\* ---- Properties --------------------------------------------------------

\* The iteration that created asset fid has ended.
Finished(fid) == fid \in DOMAIN assets /\ (fid < i \/ pc = "done")

\* C1: the blob move of a file is issued only after the transcription result
\* of that file has been written to rdt_assets.
C1_MoveAfterPersist == \A fid \in moveIssued : fid \in persistOk

\* C2: when the write of the transcription result fails after a successful
\* transcription, the move is never invoked for that file.
C2_PersistFailureBlocksMove ==
    \A fid \in DOMAIN faults :
        ("persist" \in faults[fid] /\ "transcription" \notin faults[fid])
            => fid \notin moveIssued

\* C3: an asset in status completed has its blob in the destination container
\* and no longer in the source container.
C3_CompletedImpliesMoved ==
    \A fid \in DOMAIN assets :
        assets[fid].status = "completed"
            => (files[fid] \notin source /\ files[fid] \in dest)

\* No revision of the handler ever writes the status error to an asset.
NoAssetInError ==
    /\ \A fid \in DOMAIN assets : assets[fid].status # "error"
    /\ \A fid \in DOMAIN sqlAssets : sqlAssets[fid].status # "error"

\* C5: an asset in status completed has a non-empty transcript and a
\* processed date.
C5_CompletedHasTranscript ==
    \A fid \in DOMAIN assets :
        assets[fid].status = "completed"
            => (Truthy(assets[fid].transcription)
                /\ assets[fid].processedDate # Null)

\* C6: a file whose transcription failed is not moved, is not marked
\* completed and is reported as error.
C6_TranscriptionFailureEndsInError ==
    \A fid \in DOMAIN assets :
        (Finished(fid) /\ "transcription" \in faults[fid])
            => /\ fid \notin moveIssued
               /\ assets[fid].status # "completed"
               /\ results[fid].status = "error"

\* C7: every error caught for a file leaves its asset with status error and
\* an error message.
C7_CaughtErrorRecordedOnAsset ==
    \A k \in 1..Len(results) :
        results[k].status = "error"
            => (assets[k].status = "error" /\ assets[k].errorMessage # Null)

\* C8: a failure of one file changes nothing but the report and the loop
\* position, the loop goes on with the next file, every file of the request
\* is attempted, and a file whose own steps all went well is reported as
\* success whatever happened to the others.
C8_FailureStep ==
    (Len(results') = Len(results) + 1 /\ results'[Len(results')].status = "error")
        => /\ SubSeq(results', 1, Len(results)) = results
           /\ assets' = assets /\ sqlAssets' = sqlAssets
           /\ source' = source /\ dest' = dest
           /\ i' = i + 1
           /\ i < Len(files) => pc' = "create"

C8_AllAttempted ==
    pc = "done"
        => /\ DOMAIN assets = 1..Len(files)
           /\ \A k \in 1..Len(files) :
                (k \in DOMAIN faults /\ faults[k] = {})
                    => (k \in DOMAIN results /\ results[k].status = "success")

C8_BatchContinues == []C8_AllAttempted /\ [][C8_FailureStep]_vars

C8_Witness ==
    /\ pc = "done"
    /\ \E a, b \in DOMAIN results :
        /\ a < b
        /\ results[a].status = "error"
        /\ results[b].status = "success"
        /\ faults[b] = {}

\* C9 (as stated): the report holds an entry with fileid, filename and status
\* for every requested file.
C9_EveryEntryHasFileId ==
    pc = "done"
        => /\ Len(results) = Len(files)
           /\ \A k \in 1..Len(results) :
                {"fileid", "filename", "status"} \subseteq DOMAIN results[k]

\* C9 (amended): the report holds one entry per requested file, in request
\* order, with its filename and a status of success or error; a success
\* entry carries the fileid, an error entry carries the error message and no
\* fileid.
C9_ReportListsEveryFile ==
    /\ Len(results) = i - 1
    /\ pc = "done" => Len(results) = Len(files)
    /\ \A k \in 1..Len(results) :
        /\ results[k].filename = files[k]
        /\ results[k].status \in {"success", "error"}
        /\ results[k].status = "success"
            => /\ DOMAIN results[k] = {"fileid", "filename", "status"}
               /\ results[k].fileid = k
        /\ results[k].status = "error"
            => /\ DOMAIN results[k] = {"filename", "status", "error"}
               /\ Truthy(results[k].error)

C9_Witness ==
    /\ pc = "done"
    /\ Len(files) >= 2
    /\ results[1].status = "success"
    /\ results[2].status = "error"

\* C10: when the attempt of a file has ended its asset is in a terminal
\* status, reached by exactly one write.
C10_TerminalExactlyOnce ==
    \A fid \in DOMAIN assets :
        Finished(fid)
            => (assets[fid].status \in TerminalStatuses
                /\ terminalWrites[fid] = 1)

\* ---- the blob move and re-processing ------------------------------------

\* A read of the copy in the destination container (its existence, its
\* properties or its content).
VerifyingCalls ==
    {BlobCall(op, "destination") : op \in {"exists", "getProperties", "download"}}

\* C11: moveFileToProcessed deletes the source blob only after the copy has
\* been written to the destination container and read back to verify it, and
\* no step takes a blob out of both containers.
C11_CopyVerified ==
    pc = "mv_delete"
        => /\ files[i] \in dest
           /\ \E j, k \in DOMAIN blobCalls :
                /\ j < k
                /\ blobCalls[j] = BlobCall("upload", "destination")
                /\ blobCalls[k] \in VerifyingCalls

C11_BlobKept == \A f \in source \cup dest : f \in source' \cup dest'

C11_DeleteAfterVerifiedCopy == []C11_CopyVerified /\ [][C11_BlobKept]_vars

\* The move of fid failed after its transcription result had been written to
\* rdt_assets.
MoveFailedAfterPersist(fid) ==
    /\ Finished(fid)
    /\ fid \in persistOk
    /\ fid \in moveIssued
    /\ faults[fid] \cap {"blob", "blob_missing"} # {}

\* C12: a file whose move failed after its result was persisted ends with an
\* asset status that is neither completed nor the status of an ordinary
\* failure, and a later attempt on the same blob does not start over with a
\* new asset.
C12_MoveFailureIsErrorPartial ==
    \A fid \in DOMAIN assets :
        MoveFailedAfterPersist(fid)
            => /\ assets[fid].status \notin {"completed", "error", "processing"}
               /\ \A later \in DOMAIN assets :
                    (later > fid /\ files[later] = files[fid])
                        => assets[later].status # "processing"

\* C13: however often a file is processed there is one asset for it, in
\* MemStorage and in rdt_assets.
C13_OneAssetPerFile ==
    /\ \A a, b \in DOMAIN assets :
        assets[a].filename = assets[b].filename => a = b
    /\ \A a, b \in DOMAIN sqlAssets :
        sqlAssets[a].filename = sqlAssets[b].filename => a = b

\* ---- fatal and transient errors -----------------------------------------

\* The report of a file whose transcription failed for the given cause.
TranscriptionFailed(cause) ==
    "Transcription failed: Direct transcription failed: " \o cause

\* C19: once the transcription of a file has failed because the credentials
\* are invalid, no later file of the request is attempted.
C19_FatalErrorAbortsBatch ==
    \A fid \in DOMAIN results :
        (/\ results[fid].status = "error"
         /\ results[fid].error = TranscriptionFailed("Invalid credentials"))
            => \A later \in DOMAIN assets : later <= fid

\* C20: a file is reported as failed because of a transient transcription
\* error (the call threw) or a failed write of its result only after that
\* step has been tried more than once.
C20_TransientErrorsAreRetried ==
    \A fid \in DOMAIN assets :
        (Finished(fid) /\ results[fid].status = "error")
            => /\ results[fid].error = TranscriptionFailed("fetch failed")
                    => attempts[fid].transcribe > 1
               /\ "persist" \in faults[fid] => attempts[fid].persist > 1

\* ---- the write of the transcription result -------------------------------

\* The members of the asset, and the columns of its row, that the record of a
\* transcription result sets next to the status.
ResultMembers == {"processedDate", "transcription", "transcriptionJson",
                  "languageDetected"}

ResultColumns == {SqlColumn[k] : k \in ResultMembers}

\* The record is all there, or nothing of it is.
AllOrNothing(rec, names) ==
    \/ rec.status = "completed" /\ \A n \in names : rec[n] # Null
    \/ rec.status # "completed" /\ \A n \in names : rec[n] = Null

\* C21: the record of a transcription result is atomic: an asset, and its row
\* in rdt_assets, has status completed together with the processed date, the
\* transcript, the raw response and the language, or has none of them.
C21_RecordIsAtomic ==
    /\ \A fid \in DOMAIN assets : AllOrNothing(assets[fid], ResultMembers)
    /\ \A fid \in DOMAIN sqlAssets : AllOrNothing(sqlAssets[fid], ResultColumns)

\* ---- the first write of an asset ----------------------------------------

\* The assets and rows a step creates have the given statuses and size 0.
CreatedWith(memStatuses, sqlStatuses) ==
    /\ \A fid \in DOMAIN assets' \ DOMAIN assets :
        assets'[fid].status \in memStatuses /\ assets'[fid].fileSize = 0
    /\ \A fid \in DOMAIN sqlAssets' \ DOMAIN sqlAssets :
        sqlAssets'[fid].status \in sqlStatuses /\ sqlAssets'[fid].file_size = 0

Returned == version = "routes" /\ pc \in {"move", "mv_download", "mv_upload",
                                          "mv_delete", "update"}

\* C27: processAudioFile answers success = true only with a transcript that
\* is a non-empty, non-whitespace string; every other answer is a result
\* with success = false, an error text and no transcript.
C27_SuccessOnlyWithTranscript ==
    /\ result.success
        => Truthy(result.transcript) /\ Trim(result.transcript) # ""
    /\ (Returned /\ ~result.success)
        => /\ Truthy(result.error)
           /\ result.transcript = Null
           /\ result.transcription = Null

\* The proxy answered 2xx with an empty or blank transcript, and
\* processAudioFile has returned a failure.
C27_Witness ==
    /\ Returned
    /\ ~result.success
    /\ result.error = "Empty or invalid transcript returned from DirectTranscribe"

\* ---- MemStorage and rdt_assets ------------------------------------------

\* C25: when createAsset or updateAsset has returned an asset, the asset in
\* MemStorage and the row of its fileid in rdt_assets have the same status.
C25_Returned ==
    assets' # assets
        => /\ fileid' \in DOMAIN sqlAssets'
           /\ sqlAssets'[fileid'].status = assets'[fileid'].status

C25_MemoryAndSqlAgree == [][C25_Returned]_vars

\* ---- Paragraphs and sentences: src/check_sql_server_tables.js ------------

MaxRuns == 2
MaxParagraphs == 2
MaxSentences == 1

\* The fileids transcripts are stored under.
ParagraphFileids == {"file_a", "file_b"}

\* What the extraction hands to the store: the paragraphs of the response in
\* their order, each with the number of its sentences.
Transcripts ==
    UNION {[1..n -> 0..MaxSentences] : n \in 0..MaxParagraphs}

\* f"{para_idx}_{sent_idx}"
SentenceId(para_idx, sent_idx) == ToString(para_idx) \o "_" \o ToString(sent_idx)

\* A procedure that inserts the paragraph without deleting what is stored
\* under its fileid and index.
RDS_InsertParagraph_KeepsOld(paragraphs, sentences, fid, idx, text, id, now) ==
    [rdt_paragraphs |-> paragraphs \cup
        {[id |-> id, fileid |-> fid, paragraph_idx |-> idx, text |-> text,
          created_dt |-> now]},
     rdt_sentences |-> sentences]

\* RDS_InsertParagraph: the two DELETEs and the INSERT; id is SCOPE_IDENTITY().
RDS_InsertParagraph(paragraphs, sentences, fid, idx, text, id, now) ==
    LET old == {r \in paragraphs : r.fileid = fid /\ r.paragraph_idx = idx} IN
    [rdt_paragraphs |-> (paragraphs \ old) \cup
        {[id |-> id, fileid |-> fid, paragraph_idx |-> idx, text |-> text,
          created_dt |-> now]},
     rdt_sentences |->
        {r \in sentences : r.paragraph_id \notin {o.id : o \in old}}]

\* RDS_InsertSentence: the DELETE and the INSERT.
RDS_InsertSentence(sentences, fid, pid, idx, text, id, now) ==
    {r \in sentences : ~(r.paragraph_id = pid /\ r.sentence_idx = idx)}
    \cup {[id |-> id, fileid |-> fid, paragraph_id |-> pid,
            sentence_idx |-> idx, text |-> text, created_dt |-> now]}

\* The transcript being stored and the fileid it is stored under.
CurrentRun == runs[Len(runs)]

\* After paragraph idx and its sentences: the next paragraph, or the end.
AfterParagraph(idx) ==
    IF idx + 1 < Len(CurrentRun.transcript)
    THEN /\ ppc' = "paragraph"
         /\ paragraph_idx' = idx + 1
    ELSE /\ ppc' = "stored"
         /\ paragraph_idx' = idx

\* The pipeline is invoked for a fileid; its transcript is stored paragraph
\* by paragraph.  The first fileid ever used is file_a.
StartRun(fid, transcript) ==
    /\ ppc \in {"idle", "stored"}
    /\ Len(runs) < MaxRuns
    /\ runs = <<>> => fid = "file_a"
    /\ runs' = Append(runs, [fileid |-> fid, transcript |-> transcript])
    /\ ppc' = IF Len(transcript) = 0 THEN "stored" ELSE "paragraph"
    /\ paragraph_idx' = 0
    /\ sentence_idx' = 0
    /\ UNCHANGED <<paragraph_id, rdt_paragraphs, rdt_sentences, identity>>
    /\ UNCHANGED <<otherVars, pipelineVars, analysisVars>>

\* EXEC RDS_InsertParagraph for paragraph paragraph_idx.
InsertParagraph ==
    LET stored == RDS_InsertParagraph(rdt_paragraphs, rdt_sentences,
                      CurrentRun.fileid, paragraph_idx,
                      CurrentRun.transcript[paragraph_idx + 1],
                      identity.rdt_paragraphs, Len(runs)) IN
    /\ ppc = "paragraph"
    /\ rdt_paragraphs' = stored.rdt_paragraphs
    /\ rdt_sentences' = stored.rdt_sentences
    /\ paragraph_id' = identity.rdt_paragraphs
    /\ identity' = [identity EXCEPT !.rdt_paragraphs = @ + 1]
    /\ sentence_idx' = 0
    /\ IF CurrentRun.transcript[paragraph_idx + 1] > 0
       THEN ppc' = "sentence" /\ paragraph_idx' = paragraph_idx
       ELSE AfterParagraph(paragraph_idx)
    /\ UNCHANGED runs
    /\ UNCHANGED <<otherVars, pipelineVars, analysisVars>>

\* EXEC RDS_InsertSentence for sentence sentence_idx of the paragraph.
InsertSentence ==
    /\ ppc = "sentence"
    /\ rdt_sentences' = RDS_InsertSentence(rdt_sentences, CurrentRun.fileid,
                            paragraph_id,
                            SentenceId(paragraph_idx, sentence_idx),
                            SentenceId(paragraph_idx, sentence_idx),
                            identity.rdt_sentences, Len(runs))
    /\ identity' = [identity EXCEPT !.rdt_sentences = @ + 1]
    /\ IF sentence_idx + 1 < CurrentRun.transcript[paragraph_idx + 1]
       THEN /\ sentence_idx' = sentence_idx + 1
            /\ UNCHANGED <<ppc, paragraph_idx>>
       ELSE /\ sentence_idx' = sentence_idx
            /\ AfterParagraph(paragraph_idx)
    /\ UNCHANGED <<runs, paragraph_id, rdt_paragraphs>>
    /\ UNCHANGED <<otherVars, pipelineVars, analysisVars>>

\* The handler is not running.
PipelineIdle ==
    /\ version = "routes"
    /\ files = <<>>
    /\ i = 1
    /\ pc = "idle"
    /\ fileid = 0
    /\ result = NoResult
    /\ results = <<>>
    /\ assets = <<>>
    /\ sqlAssets = <<>>
    /\ source = {}
    /\ dest = {}
    /\ moveIssued = {}
    /\ persistOk = {}
    /\ faults = <<>>
    /\ terminalWrites = <<>>
    /\ blobCalls = <<>>
    /\ attempts = <<>>

InitParagraphs == PipelineIdle /\ AnalysisIdle /\ ParagraphsIdle /\ OthersIdle

NextParagraphs ==
    \/ \E fid \in ParagraphFileids, transcript \in Transcripts :
            StartRun(fid, transcript)
    \/ InsertParagraph
    \/ InsertSentence

SpecParagraphs == InitParagraphs /\ [][NextParagraphs]_vars

\* The rows stored for a fileid.
ParagraphsOf(fid) == {r \in rdt_paragraphs : r.fileid = fid}
SentencesOf(fid) == {r \in rdt_sentences : r.fileid = fid}

\* C14: there is never more than one paragraph per (fileid, paragraph_idx)
\* nor more than one sentence per (paragraph_id, sentence_idx), and when a
\* transcript has been stored, the first time or again, each of its
\* paragraphs and sentences is there.
C14_OneRowPerIndex ==
    /\ \A a, b \in rdt_paragraphs :
        (a.fileid = b.fileid /\ a.paragraph_idx = b.paragraph_idx) => a = b
    /\ \A a, b \in rdt_sentences :
        (a.paragraph_id = b.paragraph_id /\ a.sentence_idx = b.sentence_idx)
            => a = b
    /\ ppc = "stored"
        => \A p \in 0..(Len(CurrentRun.transcript) - 1) :
            \E r \in ParagraphsOf(CurrentRun.fileid) :
                /\ r.paragraph_idx = p
                /\ \A k \in 0..(CurrentRun.transcript[p + 1] - 1) :
                    \E t \in SentencesOf(CurrentRun.fileid) :
                        /\ t.paragraph_id = r.id
                        /\ t.sentence_idx = SentenceId(p, k)

\* The pipeline has run twice in a row on the same fileid with the same
\* transcript, which has a paragraph with a sentence.
C14_Witness ==
    /\ ppc = "stored"
    /\ Len(runs) >= 2
    /\ runs[Len(runs)] = runs[Len(runs) - 1]
    /\ \E p \in DOMAIN CurrentRun.transcript : CurrentRun.transcript[p] > 0
    /\ \E r \in rdt_sentences : r.created_dt = Len(runs)

\* C15: when a transcript has been stored for a fileid, the paragraphs and
\* sentences of that fileid are exactly those of this transcript: one
\* paragraph per index of the transcript and no row of an earlier run.
C15_ReprocessingReplacesAll ==
    ppc = "stored"
        => /\ {r.paragraph_idx : r \in ParagraphsOf(CurrentRun.fileid)}
                = 0..(Len(CurrentRun.transcript) - 1)
           /\ \A r \in ParagraphsOf(CurrentRun.fileid) \cup
                        SentencesOf(CurrentRun.fileid) :
                r.created_dt = Len(runs)

\* ---- The procedures, called by any client ---------------------------------

MaxCalls == 3

\* The sentence_idx values a client passes.
SentenceIdxs == {SentenceId(p, 0) : p \in 0..(MaxParagraphs - 1)}

\* A table without the constraint.
FK_NotEnforced(paragraphs, pid) == TRUE

\* FOREIGN KEY (paragraph_id) REFERENCES rdt_paragraphs(id)
FK_sentences_paragraphs(paragraphs, pid) == \E p \in paragraphs : p.id = pid

\* The number of calls so far.
Calls == Len(runs)

\* EXEC RDS_InsertParagraph @fileid, @paragraph_idx, ... with any arguments;
\* the fileid is that of an existing asset.
ExecInsertParagraph(fid, idx) ==
    LET old == {r \in rdt_paragraphs : r.fileid = fid /\ r.paragraph_idx = idx}
        stored == RDS_InsertParagraph(rdt_paragraphs, rdt_sentences, fid, idx,
                      0, identity.rdt_paragraphs, Calls + 1) IN
    /\ ppc = "idle"
    /\ Calls < MaxCalls
    /\ rdt_paragraphs' = stored.rdt_paragraphs
    /\ rdt_sentences' = stored.rdt_sentences
    /\ paragraph_id' = identity.rdt_paragraphs
    /\ identity' = [identity EXCEPT !.rdt_paragraphs = @ + 1]
    /\ runs' = Append(runs, [proc |-> "RDS_InsertParagraph", fileid |-> fid,
                             replaced |-> {o.id : o \in old}])
    /\ UNCHANGED <<ppc, paragraph_idx, sentence_idx>>
    /\ UNCHANGED <<otherVars, pipelineVars, analysisVars>>

\* EXEC RDS_InsertSentence @fileid, @paragraph_id, @sentence_idx, ... with
\* any arguments.  The DELETE runs; the INSERT of a row whose paragraph_id is
\* not in rdt_paragraphs fails on the foreign key, after taking its identity
\* value.
ExecInsertSentence(fid, pid, idx) ==
    /\ ppc = "idle"
    /\ Calls < MaxCalls
    /\ rdt_sentences' =
            IF FK_sentences_paragraphs(rdt_paragraphs, pid)
            THEN RDS_InsertSentence(rdt_sentences, fid, pid, idx, idx,
                                    identity.rdt_sentences, Calls + 1)
            ELSE {r \in rdt_sentences :
                    ~(r.paragraph_id = pid /\ r.sentence_idx = idx)}
    /\ identity' = [identity EXCEPT !.rdt_sentences = @ + 1]
    /\ runs' = Append(runs, [proc |-> "RDS_InsertSentence", fileid |-> fid,
                             paragraph_id |-> pid,
                             inserted |-> FK_sentences_paragraphs(
                                              rdt_paragraphs, pid)])
    /\ UNCHANGED <<ppc, paragraph_idx, sentence_idx, paragraph_id,
                   rdt_paragraphs>>
    /\ UNCHANGED <<otherVars, pipelineVars, analysisVars>>

InitCalls == PipelineIdle /\ AnalysisIdle /\ ParagraphsIdle /\ OthersIdle

NextCalls ==
    \/ \E fid \in ParagraphFileids, idx \in 0..(MaxParagraphs - 1) :
            ExecInsertParagraph(fid, idx)
    \/ \E fid \in ParagraphFileids, pid \in 1..MaxCalls,
          idx \in SentenceIdxs : ExecInsertSentence(fid, pid, idx)

SpecCalls == InitCalls /\ [][NextCalls]_vars

\* C30: every sentence row references a paragraph row that exists.
C30_NoOrphanedSentence ==
    \A s \in rdt_sentences : \E p \in rdt_paragraphs : p.id = s.paragraph_id

\* A paragraph that had a sentence has been replaced.
C30_Witness ==
    \E j, k \in DOMAIN runs :
        /\ j < k
        /\ runs[j].proc = "RDS_InsertSentence"
        /\ runs[j].inserted
        /\ runs[k].proc = "RDS_InsertParagraph"
        /\ runs[j].paragraph_id \in runs[k].replaced

\* ---- Children and their parents -------------------------------------------

\* Every sentence has the fileid of the paragraph it references.
SentencesOfOwnFile ==
    \A s \in rdt_sentences : \A p \in rdt_paragraphs :
        p.id = s.paragraph_id => p.fileid = s.fileid

\* Every row of the Map children hangs under exactly one record of the Map
\* parents, the one it names, and that record is the record of one fileid.
OneParent(children, parentField, parents) ==
    \A e \in maps[children] : \A k \in DOMAIN e.value :
        /\ e.value[k][parentField] = e.key
        /\ Cardinality({p \in maps[parents] : p.value.id = e.key}) = 1

\* C23: no child is shared between two assets: a sentence has the fileid of
\* its paragraph, and a forbidden-phrase detail or a speaker segment hangs
\* under exactly one record, which belongs to one fileid.
C23_NoSharedChild ==
    /\ SentencesOfOwnFile
    /\ OneParent("forbiddenPhrasesDetails", "forbiddenPhraseId",
                 "forbiddenPhrases")
    /\ OneParent("speakerSegments", "diarizationId", "speakerDiarization")

\* ---- MemStorage.save*: src/server/storage.ts ------------------------------

MaxSaves == 3
MaxDetails == 2

\* The fileids analysis results are saved under.
AnalysisFileids == {"file_a", "file_b"}

\* A Map that adds an entry without looking for the key.
MapSet_AddsEntry(map, key, value) == map \cup {[key |-> key, value |-> value]}

\* Map.prototype.set: the entry of the key is replaced.
MapSet(map, key, value) ==
    {e \in map : e.key # key} \cup {[key |-> key, value |-> value]}

\* Map.prototype.get
MapGet(map, key) ==
    IF \E e \in map : e.key = key
    THEN (CHOOSE e \in map : e.key = key).value ELSE Null

\* { ...data, id, created_dt, created_by: 1, status: 'completed' }
SavedRecord(data, id) ==
    [id |-> id, created_by |-> 1, status |-> "completed"] @@ data

\* The body the six save methods share: the next id of the module's counter,
\* the record, this.<module>.set(data.fileid, record).  st holds the Maps and
\* the counters.
SaveAnalysis(st, module, data) ==
    [maps |-> [st.maps EXCEPT ![module] =
                MapSet(@, data.fileid, SavedRecord(data, st.currentId[module]))],
     currentId |-> [st.currentId EXCEPT ![module] = @ + 1]]

\* if (details && details.length > 0): the rows get their ids and the id of
\* the record they belong to, and are set under that id.
SaveDetails(st, children, parentField, id, details) ==
    IF Len(details) = 0 THEN st
    ELSE LET detailsWithIds ==
                [k \in DOMAIN details |->
                    ([id |-> st.currentId[children] + k - 1]
                        @@ (parentField :> id)) @@ details[k]] IN
         [maps |-> [st.maps EXCEPT ![children] = MapSet(@, id, detailsWithIds)],
          currentId |-> [st.currentId EXCEPT ![children] = @ + Len(details)]]

saveSentimentAnalysis(st, data) == SaveAnalysis(st, "sentiment", data)
saveLanguageDetection(st, data) == SaveAnalysis(st, "language", data)
saveSummarization(st, data) == SaveAnalysis(st, "summarization", data)
saveForbiddenPhrases(st, data, details) ==
    SaveDetails(SaveAnalysis(st, "forbiddenPhrases", data),
                "forbiddenPhrasesDetails", "forbiddenPhraseId",
                st.currentId["forbiddenPhrases"], details)
saveTopicModeling(st, data) == SaveAnalysis(st, "topicModeling", data)
saveSpeakerDiarization(st, data, segments) ==
    SaveDetails(SaveAnalysis(st, "speakerDiarization", data),
                "speakerSegments", "diarizationId",
                st.currentId["speakerDiarization"], segments)

\* The Maps and counters of MemStorage as one value.
Storage == [maps |-> maps, currentId |-> currentId]

\* The number of saves so far.
RECURSIVE SavesOf(_)
SavesOf(modules) ==
    IF modules = {} THEN 0
    ELSE LET m == CHOOSE x \in modules : TRUE IN
         (currentId[m] - 1) + SavesOf(modules \ {m})

\* The data a caller may hand to the save method of a module.
SaveInputs(module) ==
    CASE module = "sentiment" ->
            [fileid : AnalysisFileids,
             overallSentiment : {"neutral", "positive"},
             confidenceScore : {75}]
      [] module = "language" ->
            [fileid : AnalysisFileids, language : {"English", "Spanish"},
             confidence : {95}]
      [] module = "summarization" ->
            [fileid : AnalysisFileids, summary : {"summary 1", "summary 2"},
             summaryType : {"short"}]
      [] module = "forbiddenPhrases" ->
            [fileid : AnalysisFileids, riskScore : {0, 40},
             riskLevel : {"low"}]
      [] module = "topicModeling" ->
            [fileid : AnalysisFileids, topicsDetected : {"[]", "[billing]"}]
      [] module = "speakerDiarization" ->
            [fileid : AnalysisFileids, speakerCount : {1, 2}]

\* The details or segments a caller may hand over with the data.
DetailInputs ==
    UNION {[1..n -> {[text |-> "a"]}] : n \in 0..MaxDetails}

\* One call of a save method.
Stored(st) ==
    /\ SavesOf(Modules) < MaxSaves
    /\ maps' = st.maps
    /\ currentId' = st.currentId
    /\ UNCHANGED <<transcriptionResponse, moduleResults, failedModules>>
    /\ UNCHANGED <<otherVars, pipelineVars, paragraphVars>>

SaveSentimentAnalysis(data) == Stored(saveSentimentAnalysis(Storage, data))
SaveLanguageDetection(data) == Stored(saveLanguageDetection(Storage, data))
SaveSummarization(data) == Stored(saveSummarization(Storage, data))
SaveForbiddenPhrases(data, details) ==
    Stored(saveForbiddenPhrases(Storage, data, details))
SaveTopicModeling(data) == Stored(saveTopicModeling(Storage, data))
SaveSpeakerDiarization(data, segments) ==
    Stored(saveSpeakerDiarization(Storage, data, segments))

InitSaves == PipelineIdle /\ ParagraphsIdle /\ AnalysisIdle /\ OthersIdle

NextSaves ==
    \/ \E data \in SaveInputs("sentiment") : SaveSentimentAnalysis(data)
    \/ \E data \in SaveInputs("language") : SaveLanguageDetection(data)
    \/ \E data \in SaveInputs("summarization") : SaveSummarization(data)
    \/ \E data \in SaveInputs("forbiddenPhrases"), details \in DetailInputs :
            SaveForbiddenPhrases(data, details)
    \/ \E data \in SaveInputs("topicModeling") : SaveTopicModeling(data)
    \/ \E data \in SaveInputs("speakerDiarization"),
          segments \in DetailInputs : SaveSpeakerDiarization(data, segments)

SpecSaves == InitSaves /\ [][NextSaves]_vars

\* C16: each of the six Maps holds at most one record per fileid, however
\* many saves there were for it.
C16_OneRecordPerFileid ==
    \A m \in Modules :
        /\ \A a, b \in maps[m] : a.value.fileid = b.value.fileid => a = b
        /\ \A e \in maps[m] : e.key = e.value.fileid
        /\ Cardinality(maps[m]) <= Cardinality(AnalysisFileids)

\* A second save for a fileid has replaced the record of the first.
C16_Witness ==
    \E m \in Modules :
        /\ currentId[m] = 3
        /\ Cardinality(maps[m]) = 1
        /\ \E e \in maps[m] : e.value.id = 2

\* ---- The analysis pipeline: src/server/services/direct-postgres.ts -------

\* What deepgram.listen.prerecorded.transcribeFile hands back: it throws, or
\* it answers without a result, or with a result and its transcript.
SdkResponses ==
    {[net |-> "throw", transcription |-> Null, transcript |-> Null],
     [net |-> "ok", transcription |-> Null, transcript |-> Null],
     [net |-> "ok", transcription |-> "result", transcript |-> ""],
     [net |-> "ok", transcription |-> "result", transcript |-> "hello"]}

\* r?.field || fallback, for a text and for a number.
OrField(r, field, fallback) ==
    IF field \in DOMAIN r /\ Truthy(r[field]) THEN r[field] ELSE fallback

OrNumber(r, field, fallback) ==
    IF field \in DOMAIN r /\ r[field] # 0 THEN r[field] ELSE fallback

\* What main of a module resolves to: its result, or, when something in its
\* try block throws, the payload of its catch block.
ModuleMain(module, fid, failed) ==
    CASE module = "sentiment" ->
            IF failed
            THEN [fileid |-> fid, status |-> "error", error |-> "module error",
                  overallSentiment |-> "neutral", confidenceScore |-> 50]
            ELSE [fileid |-> fid, overallSentiment |-> "positive",
                  confidenceScore |-> 75]
      [] module = "language" ->
            IF failed
            THEN [fileid |-> fid, status |-> "error", error |-> "module error",
                  language |-> "Unknown", confidence |-> 0]
            ELSE [fileid |-> fid, language |-> "Spanish", confidence |-> 95]
      [] module = "summarization" ->
            IF failed
            THEN [fileid |-> fid, status |-> "error", error |-> "module error",
                  summary |-> "Summary unavailable due to an error",
                  summaryType |-> "error"]
            ELSE [fileid |-> fid, summary |-> "summary 1",
                  summaryType |-> "short"]
      [] module = "topicModeling" ->
            [fileid |-> fid, lda_detected_topics |-> "[]",
             status |-> IF failed THEN "Error" ELSE "Success",
             error |-> IF failed THEN "module error" ELSE Null]
      [] OTHER ->
            [fileid |-> fid,
             status |-> IF failed THEN "Error" ELSE "Success",
             error |-> IF failed THEN "module error" ELSE Null]

\* The data of the six saves that follow Promise.all.
ResultData(module, fid, r) ==
    CASE module = "sentiment" ->
            [fileid |-> fid,
             overallSentiment |-> OrField(r, "overallSentiment", "neutral"),
             confidenceScore |-> OrNumber(r, "confidenceScore", 75)]
      [] module = "language" ->
            [fileid |-> fid, language |-> OrField(r, "language", "English"),
             confidence |-> OrNumber(r, "confidence", 95)]
      [] module = "summarization" ->
            [fileid |-> fid,
             summary |-> OrField(r, "summary",
                                 "Automated call summary not available."),
             summaryType |-> OrField(r, "summaryType", "short")]
      [] module = "forbiddenPhrases" ->
            [fileid |-> fid, riskScore |-> OrNumber(r, "riskScore", 0),
             riskLevel |-> OrField(r, "riskLevel", "low")]
      [] module = "topicModeling" ->
            [fileid |-> fid,
             topicsDetected |-> OrField(r, "lda_detected_topics", "[general]")]
      [] module = "speakerDiarization" ->
            [fileid |-> fid, speakerCount |-> 2]

\* const audioData = await downloadBlob(sourceContainerClient, filename)
DownloadBlob(ok) ==
    /\ pc = "transcribe"
    /\ UNCHANGED <<version, files, fileid, assets, sqlAssets, source, dest,
                   moveIssued, persistOk, terminalWrites, blobCalls, attempts>>
    /\ UNCHANGED <<otherVars, paragraphVars, analysisVars>>
    /\ IF ~ok \/ files[i] \notin source
       THEN /\ faults' = Fault(faults, fileid, "download")
            /\ CatchError(StorageError)
       ELSE /\ faults' = faults
            /\ pc' = "pa_transcribe"
            /\ UNCHANGED <<i, result, results>>

\* const transcriptionResponse = await this.transcribeAudio(localFilePath)
TranscribeAudio(resp) ==
    /\ pc = "pa_transcribe"
    /\ attempts' = Attempt(attempts, fileid, "transcribe")
    /\ UNCHANGED <<version, files, fileid, assets, sqlAssets, source, dest,
                   moveIssued, persistOk, terminalWrites, blobCalls>>
    /\ UNCHANGED <<otherVars, paragraphVars, maps, currentId, moduleResults,
                   failedModules>>
    /\ IF resp.net = "throw"
       THEN /\ faults' = Fault(faults, fileid, "transcription")
            /\ transcriptionResponse' = Null
            /\ CatchError("transcription request failed")
       ELSE /\ faults' = faults
            /\ transcriptionResponse' = resp
            /\ pc' = "pa_update"
            /\ UNCHANGED <<i, result, results>>

\* await storage.updateAsset(assetFileid, { transcription, transcriptionJson,
\* language })
SaveTranscription(sqlOk) ==
    LET updates == [transcription |-> LegacyTranscript(transcriptionResponse),
                    transcriptionJson |->
                        Or(transcriptionResponse.transcription, "{}"),
                    language |-> "English"] IN
    /\ pc = "pa_update"
    /\ assets' = updateAssetMem(assets, fileid, updates)
    /\ sqlAssets' = updateAssetSql(assets, sqlAssets, fileid, updates, sqlOk)
    /\ pc' = "pa_defaults"
    /\ UNCHANGED <<version, files, i, fileid, result, results, source, dest,
                   moveIssued, persistOk, faults, terminalWrites, blobCalls,
                   attempts>>
    /\ UNCHANGED <<otherVars, paragraphVars, analysisVars>>

\* The three saves that precede the modules.
SaveDefaultAnalyses ==
    LET s1 == saveSentimentAnalysis(Storage,
                  [fileid |-> fileid, overallSentiment |-> "neutral",
                   confidenceScore |-> 75])
        s2 == saveLanguageDetection(s1,
                  [fileid |-> fileid, language |-> "English",
                   confidence |-> 95])
        s3 == saveSummarization(s2,
                  [fileid |-> fileid,
                   summary |-> "This is an automatically generated summary",
                   summaryType |-> "short"]) IN
    /\ pc = "pa_defaults"
    /\ maps' = s3.maps
    /\ currentId' = s3.currentId
    /\ pc' = "pa_modules"
    /\ UNCHANGED <<version, files, i, fileid, result, results, assets,
                   sqlAssets, source, dest, moveIssued, persistOk, faults,
                   terminalWrites, blobCalls, attempts>>
    /\ UNCHANGED <<otherVars, paragraphVars, transcriptionResponse, moduleResults,
                   failedModules>>

\* A Promise.all over mains that let their errors through: it rejects when a
\* module fails, and processAudioFile rethrows.
RunModules_Rejects(failed) ==
    /\ pc = "pa_modules"
    /\ failedModules' = (fileid :> failed) @@ failedModules
    /\ UNCHANGED <<version, files, fileid, assets, sqlAssets, source, dest,
                   moveIssued, persistOk, faults, terminalWrites, blobCalls,
                   attempts>>
    /\ UNCHANGED <<otherVars, paragraphVars, maps, currentId, transcriptionResponse>>
    /\ IF failed # {}
       THEN /\ moduleResults' = <<>>
            /\ CatchError("module error")
       ELSE /\ moduleResults' =
                    [m \in Modules |-> ModuleMain(m, fileid, FALSE)]
            /\ pc' = "pa_save"
            /\ UNCHANGED <<i, result, results>>

\* await Promise.all([...six mains]): every main catches what it throws and
\* resolves, the modules in `failed` with the payload of their catch block.
RunModules(failed) ==
    /\ pc = "pa_modules"
    /\ moduleResults' = [m \in Modules |-> ModuleMain(m, fileid, m \in failed)]
    /\ failedModules' = (fileid :> failed) @@ failedModules
    /\ pc' = "pa_save"
    /\ UNCHANGED <<version, files, i, fileid, result, results, assets,
                   sqlAssets, source, dest, moveIssued, persistOk, faults,
                   terminalWrites, blobCalls, attempts>>
    /\ UNCHANGED <<otherVars, paragraphVars, maps, currentId, transcriptionResponse>>

\* The six saves of the results, and the return to the handler.
SaveAnalysisResults ==
    LET data(m) == ResultData(m, fileid, moduleResults[m])
        s1 == saveSentimentAnalysis(Storage, data("sentiment"))
        s2 == saveLanguageDetection(s1, data("language"))
        s3 == saveSummarization(s2, data("summarization"))
        s4 == saveForbiddenPhrases(s3, data("forbiddenPhrases"), <<>>)
        s5 == saveTopicModeling(s4, data("topicModeling"))
        s6 == saveSpeakerDiarization(s5, data("speakerDiarization"), <<>>) IN
    /\ pc = "pa_save"
    /\ maps' = s6.maps
    /\ currentId' = s6.currentId
    /\ result' = [success |-> Null, error |-> Null,
                  transcription |-> transcriptionResponse.transcription,
                  transcript |-> transcriptionResponse.transcript]
    /\ transcriptionResponse' = Null
    /\ moduleResults' = <<>>
    /\ pc' = "move"
    /\ UNCHANGED <<version, files, i, fileid, results, assets, sqlAssets,
                   source, dest, moveIssued, persistOk, faults,
                   terminalWrites, blobCalls, attempts>>
    /\ UNCHANGED <<otherVars, paragraphVars, failedModules>>

\* routes.ts with the DeepgramService of direct-postgres.ts, asked for one
\* file.
InitAnalysis ==
    /\ version = "routes"
    /\ files \in BatchesUpTo(1)
    /\ i = 1
    /\ pc = "start"
    /\ fileid = 0
    /\ result = NoResult
    /\ results = <<>>
    /\ assets = <<>>
    /\ sqlAssets = <<>>
    /\ source \in SUBSET {1}
    /\ dest = {}
    /\ moveIssued = {}
    /\ persistOk = {}
    /\ faults = <<>>
    /\ terminalWrites = <<>>
    /\ blobCalls = <<>>
    /\ attempts = <<>>
    /\ ParagraphsIdle
    /\ AnalysisIdle
    /\ OthersIdle

NextAnalysis ==
    \/ Start
    \/ \E sqlOk \in BOOLEAN : CreateAsset(sqlOk)
    \/ \E ok \in BOOLEAN : DownloadBlob(ok)
    \/ \E resp \in SdkResponses : TranscribeAudio(resp)
    \/ \E sqlOk \in BOOLEAN : SaveTranscription(sqlOk)
    \/ SaveDefaultAnalyses
    \/ \E failed \in SUBSET Modules : RunModules(failed)
    \/ SaveAnalysisResults
    \/ \E ok \in BOOLEAN : MoveExists(ok)
    \/ \E ok \in BOOLEAN : MoveDownload(ok)
    \/ \E ok \in BOOLEAN : MoveUpload(ok)
    \/ \E ok \in BOOLEAN : MoveDelete(ok)
    \/ \E sqlOk \in BOOLEAN : Routes_UpdateAsset(sqlOk)

SpecAnalysis == InitAnalysis /\ [][NextAnalysis]_vars

\* processAudioFile has saved the results of the modules for fid.
ResultsSaved(fid) ==
    fid \in DOMAIN failedModules /\ (fid < fileid \/ pc # "pa_save")

C18_FailedModuleRecordedAsError ==
    \A fid \in DOMAIN failedModules :
        ResultsSaved(fid)
            => \A m \in Modules :
                \E e \in maps[m] :
                    /\ e.key = fid
                    /\ e.value.status = IF m \in failedModules[fid]
                                        THEN "error" ELSE "completed"

\* ---- transcribe_audio_file: src/unnamed/part_001 --------------------------

MaxItems == 2

\* A key the JSON object does not have.
Absent == "<absent>"

\* current_speaker = None
NoSpeaker == -1

\* The utterances, or the paragraphs, of a response: the key is missing, or
\* present with a list of up to MaxItems items.  The service labels the items with a speaker
\* when diarization was requested.
SpeakerItems(labelled) ==
    LET items == IF labelled THEN [speaker : {0, 1}, text : {"a"}]
                 ELSE {[text |-> "a"]} IN
    {[present |-> FALSE, items |-> <<>>]}
    \cup {[present |-> TRUE, items |-> list] :
            list \in UNION {[1..n -> items] : n \in 0..MaxItems}}

\* response.json() of a 200 answer: results.channels[0].alternatives[0]
\* .transcript, results.utterances and results.paragraphs.paragraphs.
ResponseData(labelled) ==
    [transcript : {Absent, "", "a a"},
     utterances : SpeakerItems(labelled),
     paragraphs : SpeakerItems(labelled)]

\* The pieces of a string, joined.
RECURSIVE Join(_)
Join(pieces) ==
    IF pieces = <<>> THEN "" ELSE Head(pieces) \o Join(Tail(pieces))

\* str.strip() of a string that does not start with white space: the white
\* space at its end goes.
RECURSIVE Strip(_)
Strip(pieces) ==
    IF pieces # <<>> /\ pieces[Len(pieces)] \in {" ", "\n\n"}
    THEN Strip(SubSeq(pieces, 1, Len(pieces) - 1))
    ELSE pieces

\* for utterance in utterances: speaker_transcript += f"Speaker {speaker}:
\* {text}\n\n" for the utterances that have both keys.
RECURSIVE FromUtterances(_)
FromUtterances(utterances) ==
    IF utterances = <<>> THEN <<>>
    ELSE LET u == Head(utterances) IN
         (IF {"speaker", "text"} \subseteq DOMAIN u
          THEN <<"Speaker ", ToString(u.speaker), ":", " ", u.text, "\n\n">>
          ELSE <<>>) \o FromUtterances(Tail(utterances))

\* for paragraph in paragraphs: a paragraph with a speaker starts a new
\* "Speaker n: " when the speaker changes, and adds its text and a space.
RECURSIVE FromParagraphs(_, _, _)
FromParagraphs(paragraphs, current_speaker, speaker_transcript) ==
    IF paragraphs = <<>> THEN speaker_transcript
    ELSE LET para == Head(paragraphs) IN
         IF "speaker" \notin DOMAIN para
         THEN FromParagraphs(Tail(paragraphs), current_speaker,
                             speaker_transcript)
         ELSE LET changed == current_speaker # para.speaker
                  head == IF changed
                          THEN (IF speaker_transcript # <<>>
                                THEN speaker_transcript \o <<"\n\n">>
                                ELSE speaker_transcript)
                               \o <<"Speaker ", ToString(para.speaker), ":", " ">>
                          ELSE speaker_transcript
                  text == IF "text" \in DOMAIN para
                          THEN <<para.text, " ">> ELSE <<>> IN
              FromParagraphs(Tail(paragraphs), para.speaker, head \o text)

\* A function that looks for the paragraphs before the utterances.
transcribe_audio_file_ParagraphsFirst(data, diar) ==
    LET basic_transcript == IF data.transcript # Absent
                            THEN data.transcript ELSE "" IN
    IF diar /\ data.paragraphs.present
    THEN [success |-> TRUE, has_speakers |-> TRUE,
          basic_transcript |-> basic_transcript,
          speaker_transcript |->
              Join(Strip(FromParagraphs(data.paragraphs.items, NoSpeaker, <<>>)))]
    ELSE IF diar /\ data.utterances.present
    THEN [success |-> TRUE, has_speakers |-> TRUE,
          basic_transcript |-> basic_transcript,
          speaker_transcript |-> Join(Strip(FromUtterances(data.utterances.items)))]
    ELSE [success |-> TRUE, has_speakers |-> FALSE,
          basic_transcript |-> basic_transcript, speaker_transcript |-> Null]

\* transcribe_audio_file, from the 200 answer on.
transcribe_audio_file(data, diar) ==
    LET basic_transcript == IF data.transcript # Absent
                            THEN data.transcript ELSE "" IN
    IF diar /\ data.utterances.present
    THEN [success |-> TRUE, has_speakers |-> TRUE,
          basic_transcript |-> basic_transcript,
          speaker_transcript |-> Join(Strip(FromUtterances(data.utterances.items)))]
    ELSE IF diar /\ data.paragraphs.present
    THEN [success |-> TRUE, has_speakers |-> TRUE,
          basic_transcript |-> basic_transcript,
          speaker_transcript |->
              Join(Strip(FromParagraphs(data.paragraphs.items, NoSpeaker, <<>>)))]
    ELSE [success |-> TRUE, has_speakers |-> FALSE,
          basic_transcript |-> basic_transcript, speaker_transcript |-> Null]

\* The call, once the service has answered.
Normalize ==
    /\ normalized = <<>>
    /\ normalized' = <<transcribe_audio_file(response_data, diarize)>>
    /\ UNCHANGED <<response_data, diarize>>
    /\ UNCHANGED <<coreVars, backendVars, poolVars, overlapVars>>

InitNormalize ==
    /\ PipelineIdle /\ ParagraphsIdle /\ AnalysisIdle
    /\ BackendIdle /\ PoolIdle /\ OverlapIdle
    /\ diarize \in BOOLEAN
    /\ response_data \in ResponseData(diarize)
    /\ normalized = <<>>

NextNormalize == Normalize

SpecNormalize == InitNormalize /\ [][NextNormalize]_vars

\* The text a list of speaker items stands for, speaker by speaker.
UtteranceText == Join(Strip(FromUtterances(response_data.utterances.items)))
ParagraphText ==
    Join(Strip(FromParagraphs(response_data.paragraphs.items, NoSpeaker,
                              <<>>)))

MaxChildren == 5

\* The child processes that have not exited.
Live == {c \in DOMAIN spawned : spawned[c] # "closed"}

\* startPythonBackend(): nothing if the handle is set or the script is
\* missing; otherwise the child is spawned and the handle set, before the
\* first await.  The polling of /health that follows changes nothing.
StartPythonBackend(scriptExists) ==
    /\ Len(spawned) < MaxChildren
    /\ IF pythonProcess # NoChild \/ ~scriptExists
       THEN UNCHANGED <<pythonProcess, spawned>>
       ELSE /\ spawned' = Append(spawned, "running")
            /\ pythonProcess' = Len(spawned) + 1
    /\ UNCHANGED <<coreVars, normalizeVars, poolVars, overlapVars>>

\* stopPythonBackend(): kill() sends the signal and the handle is cleared;
\* the child exits later.
StopPythonBackend ==
    /\ IF pythonProcess # NoChild
       THEN /\ spawned' = [spawned EXCEPT ![pythonProcess] =
                                IF @ = "running" THEN "killed" ELSE @]
            /\ pythonProcess' = NoChild
       ELSE UNCHANGED <<pythonProcess, spawned>>
    /\ UNCHANGED <<coreVars, normalizeVars, poolVars, overlapVars>>

\* A child exits, killed or by itself, and its 'close' handler runs:
\* pythonProcess = null.
Close(c) ==
    /\ c \in Live
    /\ spawned' = [spawned EXCEPT ![c] = "closed"]
    /\ pythonProcess' = NoChild
    /\ UNCHANGED <<coreVars, normalizeVars, poolVars, overlapVars>>

InitBackend ==
    /\ PipelineIdle /\ ParagraphsIdle /\ AnalysisIdle
    /\ NormalizeIdle /\ BackendIdle /\ PoolIdle /\ OverlapIdle

NextBackend ==
    \/ \E scriptExists \in BOOLEAN : StartPythonBackend(scriptExists)
    \/ StopPythonBackend
    \/ \E c \in DOMAIN spawned : Close(c)

SpecBackend == InitBackend /\ [][NextBackend]_vars

\* C28: at most one child process of the Python backend is alive.
C28_OneLiveBackend == Cardinality(Live) <= 1

\* ---- sqlConnect: src/server/services/azure-sql.ts -------------------------

MaxConnects == 4

\* sqlConnect(), up to its await: with a pool assigned the call returns it;
\* otherwise new sql.ConnectionPool(sqlConfig).connect() is started and the
\* call waits for it.
SqlConnect ==
    /\ Len(connects) < MaxConnects
    /\ IF pool # NoPool
       THEN /\ connects' = Append(connects, [pc |-> "returned", pool |-> pool])
            /\ UNCHANGED pools
       ELSE /\ pools' = Append(pools, "connecting")
            /\ connects' = Append(connects,
                                  [pc |-> "awaiting", pool |-> Len(pools) + 1])
    /\ UNCHANGED pool
    /\ UNCHANGED <<coreVars, normalizeVars, backendVars, overlapVars>>

\* connect() of call c settles: resolved, its pool is assigned to the
\* variable and returned; rejected, the call throws and the variable is left.
Connected(c, ok) ==
    /\ connects[c].pc = "awaiting"
    /\ IF ok
       THEN /\ pools' = [pools EXCEPT ![connects[c].pool] = "connected"]
            /\ pool' = connects[c].pool
            /\ connects' = [connects EXCEPT ![c].pc = "returned"]
       ELSE /\ pools' = [pools EXCEPT ![connects[c].pool] = "failed"]
            /\ connects' = [connects EXCEPT ![c] = [pc |-> "threw", pool |-> NoPool]]
            /\ UNCHANGED pool
    /\ UNCHANGED <<coreVars, normalizeVars, backendVars, overlapVars>>

InitConnect ==
    /\ PipelineIdle /\ ParagraphsIdle /\ AnalysisIdle
    /\ NormalizeIdle /\ BackendIdle /\ PoolIdle /\ OverlapIdle

NextConnect ==
    \/ SqlConnect
    \/ \E c \in DOMAIN connects : \E ok \in BOOLEAN : Connected(c, ok)

SpecConnect == InitConnect /\ [][NextConnect]_vars

\* C29: at most one connection pool is created in the process, a pool whose
\* connect() was rejected not counted.
C29_OnePool == Cardinality({p \in DOMAIN pools : pools[p] # "failed"}) <= 1

\* ---- POST /api/files/process, requests that overlap ------------------------

MaxRequests == 2

\* The requests being served together; request r draws the fileid r.
Requests == 1..MaxRequests

\* The one file every request names: files: ["1"].
SharedFile == 1

\* The backend reads the blob from the source container: it answers with a
\* transcript only while the blob is there, and may fail at any time.
OverlapResponses ==
    {[net |-> "http_error", error |-> Null, transcript |-> Null,
      transcription |-> Null]}
    \cup (IF SharedFile \in source
          THEN {[net |-> "ok", error |-> Null, transcript |-> "hello",
                 transcription |-> "result"]}
          ELSE {})

\* What a step of one request leaves alone.
OverlapFrame ==
    UNCHANGED <<version, files, i, pc, fileid, result, results, moveIssued,
                persistOk, faults, terminalWrites, blobCalls, attempts,
                paragraphVars, analysisVars, normalizeVars, backendVars,
                poolVars>>

Goto(r, label) == reqs' = [reqs EXCEPT ![r].pc = label]

\* const fileid = nanoid(); await storage.createAsset({... status: 'processing'})
O_CreateAsset(r, sqlOk) ==
    LET asset == [fileid |-> r, filename |-> SharedFile, fileSize |-> 0,
                  status |-> "processing"] IN
    /\ reqs[r].pc = "create"
    /\ assets' = createAssetMem(assets, asset)
    /\ sqlAssets' = createAssetSql(sqlAssets, asset, sqlOk)
    /\ Goto(r, "transcribe")
    /\ UNCHANGED <<source, dest>>
    /\ OverlapFrame

\* await deepgramService.processAudioFile(filename): routes.ts goes on
\* whatever the result, part_010 and part_011 throw on a failed one.
O_Transcribe(r, resp) ==
    LET res == processAudioFile(resp) IN
    /\ reqs[r].pc = "transcribe"
    /\ reqs' = [reqs EXCEPT ![r] =
                   [pc |-> IF version = "routes" THEN "move"
                           ELSE IF ~res.success THEN "failed"
                           ELSE IF version = "part_010" THEN "update"
                           ELSE "check_exists",
                    result |-> res]]
    /\ UNCHANGED <<assets, sqlAssets, source, dest>>
    /\ OverlapFrame

\* part_011: checkRecordExists, createAssetRecord when the row is missing,
\* updateTranscriptionRecord.
O_CheckRecordExists(r) ==
    /\ reqs[r].pc = "check_exists"
    /\ Goto(r, IF checkRecordExists(sqlAssets, r, TRUE) THEN "record"
               ELSE "create_record")
    /\ UNCHANGED <<assets, sqlAssets, source, dest>>
    /\ OverlapFrame

O_CreateAssetRecord(r) ==
    /\ reqs[r].pc = "create_record"
    /\ sqlAssets' = createAssetRecord(sqlAssets, r, SharedFile, 0, TRUE)
    /\ Goto(r, "record")
    /\ UNCHANGED <<assets, source, dest>>
    /\ OverlapFrame

O_UpdateTranscriptionRecord(r) ==
    /\ reqs[r].pc = "record"
    /\ sqlAssets' = updateTranscriptionRecord(sqlAssets, r,
                        reqs[r].result.transcript,
                        reqs[r].result.transcription, "English", TRUE)
    /\ Goto(r, IF updateTranscriptionRecordReturns(sqlAssets, r, TRUE)
               THEN "update" ELSE "failed")
    /\ UNCHANGED <<assets, source, dest>>
    /\ OverlapFrame

\* storage.updateAsset(asset.id, { status: 'completed', ... }): the last
\* step of routes.ts, followed by the move in part_010 and part_011.
O_UpdateAsset(r) ==
    LET res == reqs[r].result
        updates == IF version = "routes"
                   THEN CompletedUpdates(LegacyTranscript(res),
                                         Or(res.transcription, "{}"))
                   ELSE CompletedUpdates(res.transcript, res.transcription) IN
    /\ reqs[r].pc = "update"
    /\ assets' = updateAssetMem(assets, r, updates)
    /\ sqlAssets' = updateAssetSql(assets, sqlAssets, r, updates, TRUE)
    /\ Goto(r, IF version = "routes" THEN "done" ELSE "move")
    /\ UNCHANGED <<source, dest>>
    /\ OverlapFrame

\* moveFileToProcessed, one call of the storage SDK at a time; a call on a
\* blob that is no longer in the source container throws.
O_MoveExists(r) ==
    /\ reqs[r].pc = "move"
    /\ Goto(r, IF SharedFile \in source THEN "mv_download" ELSE "failed")
    /\ UNCHANGED <<assets, sqlAssets, source, dest>>
    /\ OverlapFrame

O_MoveDownload(r) ==
    /\ reqs[r].pc = "mv_download"
    /\ Goto(r, IF SharedFile \in source THEN "mv_upload" ELSE "failed")
    /\ UNCHANGED <<assets, sqlAssets, source, dest>>
    /\ OverlapFrame

O_MoveUpload(r) ==
    /\ reqs[r].pc = "mv_upload"
    /\ dest' = dest \cup {SharedFile}
    /\ Goto(r, "mv_delete")
    /\ UNCHANGED <<assets, sqlAssets, source>>
    /\ OverlapFrame

O_MoveDelete(r) ==
    /\ reqs[r].pc = "mv_delete"
    /\ source' = source \ {SharedFile}
    /\ Goto(r, IF SharedFile \notin source THEN "failed"
               ELSE IF version = "routes" THEN "update" ELSE "done")
    /\ UNCHANGED <<assets, sqlAssets, dest>>
    /\ OverlapFrame

InitOverlap ==
    /\ version \in Versions
    /\ files = <<SharedFile>>
    /\ i = 1
    /\ pc = "idle"
    /\ fileid = 0
    /\ result = NoResult
    /\ results = <<>>
    /\ assets = <<>>
    /\ sqlAssets = <<>>
    /\ source = {SharedFile}
    /\ dest = {}
    /\ moveIssued = {}
    /\ persistOk = {}
    /\ faults = <<>>
    /\ terminalWrites = <<>>
    /\ blobCalls = <<>>
    /\ attempts = <<>>
    /\ ParagraphsIdle /\ AnalysisIdle
    /\ NormalizeIdle /\ BackendIdle /\ PoolIdle
    /\ reqs = [r \in Requests |-> [pc |-> "create", result |-> NoResult]]

NextOverlap ==
    \E r \in Requests :
        \/ \E sqlOk \in BOOLEAN : O_CreateAsset(r, sqlOk)
        \/ \E resp \in OverlapResponses : O_Transcribe(r, resp)
        \/ O_CheckRecordExists(r)
        \/ O_CreateAssetRecord(r)
        \/ O_UpdateTranscriptionRecord(r)
        \/ O_UpdateAsset(r)
        \/ O_MoveExists(r)
        \/ O_MoveDownload(r)
        \/ O_MoveUpload(r)
        \/ O_MoveDelete(r)

SpecOverlap == InitOverlap /\ [][NextOverlap]_vars

\* C26: when the requests that name the same file have all ended, at most one
\* asset of that file is in status completed.
C26_OneCompleted ==
    (\A r \in DOMAIN reqs : reqs[r].pc \in {"done", "failed"})
        => Cardinality({fid \in DOMAIN assets :
                           /\ assets[fid].filename = SharedFile
                           /\ assets[fid].status = "completed"}) <= 1
====
